---- MODULE Spec2Model ----
(***************************************************************************)
(* Colour-extraction pipeline of src/src/data_collection/color_analyzer.py *)
(* (class ColorAnalyzer): per-image filtering of k-means clusters, the     *)
(* per-collection accumulator, the ranking of analyze_collection and the   *)
(* season-level drivers create_color_dictionary / analyze_season.          *)
(*                                                                         *)
(* Percentages are exact: resize_size = 2 gives 4 pixels per clustered     *)
(* grid, so counts / len(pixels) * 100 is one of 0, 25, 50, 75, 100 and    *)
(* sums of them are exact in floating point as well.  An average is kept   *)
(* as the reduced fraction total_percentage / count.                       *)
(*                                                                         *)
(* Line 128 builds the argument of is_skin_tone from Python ints, so the   *)
(* array is not uint8; whether cv2.cvtColor converts it or raises cv2.error*)
(* is decided by the OpenCV binding, outside this repository.  cvtOk is    *)
(* that outcome, fixed for a run and unconstrained: when it is FALSE every *)
(* image with a cluster over the area threshold ends in the except clause  *)
(* of line 135.                                                            *)
(*                                                                         *)
(* Specifications: SpecBatch applies process_image_batch to a list of      *)
(* image files; Spec runs analyze_collection, create_color_dictionary or   *)
(* analyze_season on a season tree; SpecSteps runs create_color_dictionary *)
(* one image at a time; SpecColor applies is_skin_tone and extract_colors  *)
(* to one colour; SpecEnum lists the image files of one directory and runs *)
(* the script generate_color_dictionary.py; SpecGrid loads one image of a  *)
(* given shape; SpecFit calls extract_colors repeatedly on one instance.   *)
(* SpecDataset runs DatasetGenerator.generate_dataset of                   *)
(* src/src/model_training/dataset_generator.py with its worker pool, and   *)
(* SpecScrape runs RunwayScraper.scrape_season of                          *)
(* src/src/data_collection/runway_scraper.py.                              *)
(***************************************************************************)
EXTENDS Integers, Sequences, FiniteSets, TLC

VARIABLES
    cfg,          \* constructor arguments of ColorAnalyzer (self.n_colors, ...) or
                  \* the n_jobs of generate_dataset
    cvtOk,        \* environment: cv2.cvtColor accepts the int array of line 128
    image_paths,  \* the image files a call works through, in list order
    batch_results,\* per path: the filtered_results stored at line 132, <<>> if skipped
    season_dir,   \* os.listdir(season_dir): entries in listing order
    json_files,   \* color_dictionary.json / color_analysis.json in season_dir
    call,         \* the call that ran
    ret,          \* what it returned (or raised)
    log,          \* logging records the call emitted
    caseFold,     \* environment: glob matches a pattern without regard to case
    arg,          \* argument of a call of is_skin_tone or of the formatting of line 93;
                  \* the shows the scraped site serves
    run           \* a call in progress (create_color_dictionary, generate_dataset,
                  \* scrape_season): its position and local variables

vars == <<cfg, cvtOk, image_paths, batch_results, season_dir, json_files, call, ret, log,
          caseFold, arg, run>>

(***************************************************************************)
(* Bounds                                                                  *)
(***************************************************************************)
MaxPaths == 2     \* longest image_paths list handed to process_image_batch
MaxFiles == 2     \* files in a season tree, over all designer directories
MaxEdge == 8      \* longest edge, in pixels, of a source image whose shape is tracked

(***************************************************************************)
(* Generic helpers                                                         *)
(***************************************************************************)
Min(a, b) == IF a < b THEN a ELSE b

RECURSIVE GCD(_, _)
GCD(a, b) == IF b = 0 THEN a ELSE GCD(b, a % b)

RECURSIVE SeqSum(_)
SeqSum(s) == IF s = <<>> THEN 0 ELSE Head(s) + SeqSum(Tail(s))

RECURSIVE Flatten(_)
Flatten(ss) == IF ss = <<>> THEN <<>> ELSE Head(ss) \o Flatten(Tail(ss))

SeqsUpTo(S, n) == UNION {[1..m -> S] : m \in 0..n}

Perms(n) == {p \in [1..n -> 1..n] : \A i, j \in 1..n : i # j => p[i] # p[j]}

(***************************************************************************)
(* Colours.  A centre is an RGB triple of uint8 (lines 82-83); a colour    *)
(* string is the sequence of its characters, '#' and six digits.           *)
(***************************************************************************)
RGB(r, g, b) == <<r, g, b>>

Blue336699 == RGB(51, 102, 153)     \* #336699
Skin_d9a789 == RGB(217, 167, 137)   \* #d9a789
White == RGB(255, 255, 255)         \* #ffffff

Palette == {Blue336699, Skin_d9a789, White}

\* the digits the x conversion of the % operator writes
LowerHexDigits ==
    <<"0", "1", "2", "3", "4", "5", "6", "7", "8", "9", "a", "b", "c", "d", "e", "f">>

\* the digits int(s, 16) accepts besides the lower-case ones
UpperHexDigits ==
    <<"0", "1", "2", "3", "4", "5", "6", "7", "8", "9", "A", "B", "C", "D", "E", "F">>

\* %02x of one channel: two digits, the high one "0" below 16
Hex02x(v) == <<LowerHexDigits[(v \div 16) + 1], LowerHexDigits[(v % 16) + 1]>>

\* variant: '#%x%x%x', channels not padded to two digits
HexColorUnpadded(center) ==
    LET x(v) == IF v < 16 THEN <<LowerHexDigits[v + 1]>> ELSE Hex02x(v)
    IN  <<"#">> \o x(center[1]) \o x(center[2]) \o x(center[3])

\* '#%02x%02x%02x' % (center[0], center[1], center[2])
HexColor(center) == <<"#">> \o Hex02x(center[1]) \o Hex02x(center[2]) \o Hex02x(center[3])

\* value of one hexadecimal digit as int(s, 16) reads it
HexValue(ch) ==
    (CHOOSE d \in 1..16 : LowerHexDigits[d] = ch \/ UpperHexDigits[d] = ch) - 1

\* int(color[i:i+2], 16) for the Python index i (0-based) of a colour string
HexPair(color, i) == HexValue(color[i + 1]) * 16 + HexValue(color[i + 2])

\* np.array([int(color[i:i+2], 16) for i in (5,3,1)])
ColorBGR(color) == <<HexPair(color, 5), HexPair(color, 3), HexPair(color, 1)>>

\* the colour's own channels, red first
ColorRGB(color) == <<HexPair(color, 1), HexPair(color, 3), HexPair(color, 5)>>

Saturate(x) == IF x < 0 THEN 0 ELSE IF x > 255 THEN 255 ELSE x

\* cv2.cvtColor(..., cv2.COLOR_RGB2YCrCb) on 8-bit data: 14-bit fixed point,
\* the first channel of the argument is read as red, the third as blue.
RGB2YCrCb(c) ==
    LET Y  == (c[1] * 4899 + c[2] * 9617 + c[3] * 1868 + 8192) \div 16384
        Cr == ((c[1] - Y) * 11682 + 128 * 16384 + 8192) \div 16384
        Cb == ((c[3] - Y) * 9241 + 128 * 16384 + 8192) \div 16384
    IN  <<Saturate(Y), Saturate(Cr), Saturate(Cb)>>

ycrcb_min == <<0, 133, 77>>
ycrcb_max == <<255, 173, 127>>

\* variant: inside the box if above all lower bounds or below all upper bounds
is_skin_tone_either(color) ==
    LET color_ycrcb == RGB2YCrCb(color)
    IN  \/ \A i \in 1..3 : color_ycrcb[i] >= ycrcb_min[i]
        \/ \A i \in 1..3 : color_ycrcb[i] <= ycrcb_max[i]

is_skin_tone(color) ==
    LET color_ycrcb == RGB2YCrCb(color)
    IN  /\ \A i \in 1..3 : color_ycrcb[i] >= ycrcb_min[i]
        /\ \A i \in 1..3 : color_ycrcb[i] <= ycrcb_max[i]

(***************************************************************************)
(* Images.  A decodable file is described by what MiniBatchKMeans yields   *)
(* for it under random_state=42 (a function of the pixels): the clusters   *)
(* in label order, each a centre and its pixel count; the counts partition *)
(* the resize_size x resize_size grid.  np.bincount may be shorter than    *)
(* n_clusters, so an image has between 1 and 2 * n_colors clusters.        *)
(***************************************************************************)
Cluster(center, n) == [center |-> center, n |-> n]

ImageFile(ext, clusters) == [ext |-> ext, readable |-> TRUE, clusters |-> clusters]

\* a file cv2.imread cannot decode (returns None)
CorruptFile(ext) == [ext |-> ext, readable |-> FALSE, clusters |-> <<>>]

TotalPixels == cfg.resize_size * cfg.resize_size   \* len(pixels), line 76

\* variant: divides by the number of rows, len(image), not by len(pixels)
PercentageOfRows(n) == (n * 100) \div cfg.resize_size

\* variant: divides by pixels.size (three values per pixel), not by len(pixels)
PercentageOfSize(n) == (n * 100) \div (TotalPixels * 3)

\* counts / len(pixels) * 100
Percentage(n) == (n * 100) \div TotalPixels

extract_colors(image) ==
    [i \in 1..Len(image.clusters) |->
        [color |-> HexColor(image.clusters[i].center),
         percentage |-> Percentage(image.clusters[i].n)]]

\* variant: the threshold read as a fraction of 1 instead of a percentage
PassesAreaAsFraction(obs) == obs.percentage * 100 >= cfg.min_area_percentage

\* the test of line 126
PassesArea(obs) == obs.percentage >= cfg.min_area_percentage

\* lines 128-129: the hex string is parsed blue first and handed to
\* is_skin_tone, which converts with COLOR_RGB2YCrCb
IsSkinAsCalled(obs) == is_skin_tone(ColorBGR(obs.color))

\* lines 124-130 when no call raises
filtered_results(image) ==
    SelectSeq(extract_colors(image), LAMBDA o : PassesArea(o) /\ ~IsSkinAsCalled(o))

\* line 129 raises cv2.error when the binding rejects the integer array;
\* is_skin_tone is reached only for a cluster that passes the area test
ProcessingRaises(image) ==
    /\ ~cvtOk
    /\ LET obs == extract_colors(image)
       IN  \E i \in 1..Len(obs) : PassesArea(obs[i])

\* how lines 110-137 end for one path: "unreadable" is the continue of
\* line 115, "error" that of line 137, "ok" reaches lines 132-133
PathOutcome(file) ==
    IF ~file.readable THEN "unreadable"
    ELSE IF ProcessingRaises(file) THEN "error"
    ELSE "ok"

\* lines 110-137 for one path: the outcome and the filtered_results stored
ProcessPath(file) ==
    IF PathOutcome(file) = "ok"
    THEN [outcome |-> "ok", results |-> filtered_results(file)]
    ELSE [outcome |-> PathOutcome(file), results |-> <<>>]

\* variant: total_percentage assigned instead of accumulated
AddObservationOverwrite(color_data, obs) ==
    IF \E i \in 1..Len(color_data) : color_data[i].color = obs.color
    THEN [i \in 1..Len(color_data) |->
            IF color_data[i].color = obs.color
            THEN [color_data[i] EXCEPT !.count = @ + 1,
                                       !.total_percentage = obs.percentage]
            ELSE color_data[i]]
    ELSE Append(color_data,
                [color |-> obs.color, count |-> 1, total_percentage |-> obs.percentage])

\* variant: count set on first sight only, never incremented
AddObservationNoCount(color_data, obs) ==
    IF \E i \in 1..Len(color_data) : color_data[i].color = obs.color
    THEN [i \in 1..Len(color_data) |->
            IF color_data[i].color = obs.color
            THEN [color_data[i] EXCEPT !.total_percentage = @ + obs.percentage]
            ELSE color_data[i]]
    ELSE Append(color_data,
                [color |-> obs.color, count |-> 1, total_percentage |-> obs.percentage])

\* lines 142-143 on the defaultdict of line 100; a new key is appended,
\* which is the insertion order of the dict
AddObservation(color_data, obs) ==
    IF \E i \in 1..Len(color_data) : color_data[i].color = obs.color
    THEN [i \in 1..Len(color_data) |->
            IF color_data[i].color = obs.color
            THEN [color_data[i] EXCEPT !.count = @ + 1,
                                       !.total_percentage = @ + obs.percentage]
            ELSE color_data[i]]
    ELSE Append(color_data,
                [color |-> obs.color, count |-> 1, total_percentage |-> obs.percentage])

RECURSIVE AddAll(_, _)
AddAll(color_data, observations) ==
    IF observations = <<>> THEN color_data
    ELSE AddAll(AddObservation(color_data, Head(observations)), Tail(observations))

\* variant: the first failing path ends the batch (break instead of continue)
BatchOutcomesAbort(batch_paths) ==
    [j \in 1..Len(batch_paths) |->
        IF \E k \in 1..j : PathOutcome(batch_paths[k]) # "ok"
        THEN [outcome |-> "error", results |-> <<>>]
        ELSE ProcessPath(batch_paths[j])]

\* lines 109-137 for one batch: the outcome of every path of the batch
BatchOutcomes(batch_paths) == [j \in 1..Len(batch_paths) |-> ProcessPath(batch_paths[j])]

\* lines 140-143: batch_results.values() in insertion order
AggregateBatch(color_data, outcomes) ==
    AddAll(color_data,
           Flatten([j \in 1..Len(outcomes) |->
                      IF outcomes[j].outcome = "ok" THEN outcomes[j].results ELSE <<>>]))

\* lines 105-143: for i in range(0, len(image_paths), self.batch_size)
RECURSIVE BatchLoop(_, _, _)
BatchLoop(paths, i, color_data) ==
    IF i >= Len(paths) THEN color_data
    ELSE LET batch_paths == SubSeq(paths, i + 1, Min(i + cfg.batch_size, Len(paths)))
         IN  BatchLoop(paths, i + cfg.batch_size,
                       AggregateBatch(color_data, BatchOutcomes(batch_paths)))

\* total_images of line 133
ProcessedImages(paths) ==
    Cardinality({j \in 1..Len(paths) : PathOutcome(paths[j]) = "ok"})

\* total_percentage / count, as a reduced fraction
Average(total, count) ==
    LET g == GCD(total, count)
    IN  IF g = 0 THEN [num |-> 0, den |-> 1]
        ELSE [num |-> total \div g, den |-> count \div g]

\* lines 149-151
WithAverage(stats) ==
    [color |-> stats.color, count |-> stats.count,
     total_percentage |-> stats.total_percentage,
     average_percentage |-> Average(stats.total_percentage, stats.count)]

\* process_image_batch: the dict it returns, as its items in insertion order
process_image_batch(paths) ==
    LET color_data == BatchLoop(paths, 0, <<>>)
    IN  IF ProcessedImages(paths) > 0
        THEN [i \in 1..Len(color_data) |-> WithAverage(color_data[i])]
        ELSE color_data

\* the value of batch_results[path] for every path, for inspection
BatchResultsOf(paths) == [j \in 1..Len(paths) |-> ProcessPath(paths[j])]


(***************************************************************************)
(* Inputs                                                                  *)
(***************************************************************************)
\* ways k-means can split the 2 x 2 grid over the labels it used
Splits == {<<4>>, <<3, 1>>, <<2, 2>>}

ClusterSeqs ==
    UNION {{[i \in 1..Len(sp) |-> Cluster(cs[i], sp[i])] : cs \in [1..Len(sp) -> Palette]}
           : sp \in Splits}

\* ColorAnalyzer(n_colors, resize_size, min_area_percentage, batch_size, n_jobs);
\* 2.0 is the default area threshold of line 24, 4 the default n_jobs of line 26
Configs ==
    [n_colors : {1}, resize_size : {2}, min_area_percentage : {2, 50}, batch_size : {1, 2},
     n_jobs : {4}]

\* the clustered grid has resize_size^2 pixels and at most n_clusters labels
FitsConfig(file, c) ==
    file.readable =>
        /\ Len(file.clusters) \in 1..(2 * c.n_colors)
        /\ SeqSum([i \in 1..Len(file.clusters) |-> file.clusters[i].n])
              = c.resize_size * c.resize_size

BatchFiles == {ImageFile("jpg", cl) : cl \in ClusterSeqs} \cup {CorruptFile("jpg")}

Call(op, dir, write) == [op |-> op, dir |-> dir, write |-> write]
NoCall == Call("none", "", "")

LogRecord(level, msg, dir, path) == [level |-> level, msg |-> msg, dir |-> dir, path |-> path]

\* position and local variables of a create_color_dictionary call in progress:
\* pc, the designer directories and the index d of the current one, its
\* image_paths, the start i of the current batch, the images of the batch
\* started and finished, batch_results, color_data, total_images, color_dict
RunState(pc, dirs, d, paths, i, started, finished, batch, data, total, dict) ==
    [pc |-> pc, dirs |-> dirs, d |-> d, paths |-> paths, i |-> i, started |-> started,
     finished |-> finished, batch |-> batch, color_data |-> data,
     total_images |-> total, color_dict |-> dict]

NoRun == RunState("idle", <<>>, 0, <<>>, 0, 0, 0, <<>>, <<>>, 0, <<>>)

(***************************************************************************)
(* process_image_batch as an operation on a list of paths                  *)
(***************************************************************************)
InitBatch ==
    /\ cfg \in Configs
    /\ cvtOk \in BOOLEAN
    /\ image_paths \in SeqsUpTo(BatchFiles, MaxPaths)
    /\ \A j \in 1..Len(image_paths) : FitsConfig(image_paths[j], cfg)
    /\ batch_results = <<>>
    /\ season_dir = <<>>
    /\ json_files = <<>>
    /\ call = NoCall
    /\ ret = <<>>
    /\ log = {}
    /\ caseFold = FALSE
    /\ arg = <<>>
    /\ run = NoRun

\* the records lines 114 and 136 log, one per skipped path
BatchLog(dir, paths) ==
    {LogRecord("warning", "Failed to read image", dir, j)
        : j \in {k \in 1..Len(paths) : PathOutcome(paths[k]) = "unreadable"}}
    \cup
    {LogRecord("error", "Error processing image", dir, j)
        : j \in {k \in 1..Len(paths) : PathOutcome(paths[k]) = "error"}}

ProcessImageBatch ==
    /\ call = NoCall
    /\ call' = Call("process_image_batch", "", "")
    /\ batch_results' = BatchResultsOf(image_paths)
    /\ ret' = process_image_batch(image_paths)
    /\ log' = BatchLog("", image_paths)
    /\ UNCHANGED <<cfg, cvtOk, image_paths, season_dir, json_files, caseFold, arg, run>>

NextBatch == ProcessImageBatch

SpecBatch == InitBatch /\ [][NextBatch]_vars


(***************************************************************************)
(* analyze_collection.  A directory is the sequence of its files in        *)
(* listing order.  The returned dict is encoded as a record: empty = TRUE  *)
(* stands for {}, otherwise total_images and colors are its two keys and   *)
(* colors is the dict's items in insertion order.                          *)
(***************************************************************************)
\* str.lower() on the extensions that occur in the trees below
Lower(ext) ==
    CASE ext = "JPG" -> "jpg"
      [] ext = "Png" -> "png"
      [] OTHER -> ext

\* glob.glob(os.path.join(image_dir, ext)) for one pattern: fnmatch compares
\* os.path.normcase of name and pattern, which folds case on Windows only
Glob(files, ext) ==
    SelectSeq(files, LAMBDA f : IF caseFold THEN Lower(f.ext) = ext ELSE f.ext = ext)

\* lines 159-161
GlobImages(files) == Glob(files, "jpg") \o Glob(files, "jpeg") \o Glob(files, "png")

EmptyDict == [empty |-> TRUE, total_images |-> 0, colors |-> <<>>]

\* key of line 173 compared as tuples: (count, average_percentage)
KeyGreater(a, b) ==
    \/ a.count > b.count
    \/ /\ a.count = b.count
       /\ a.average_percentage.num * b.average_percentage.den
            > b.average_percentage.num * a.average_percentage.den

\* one element placed by a stable descending sort
RECURSIVE InsertSorted(_, _)
InsertSorted(sorted, x) ==
    IF sorted = <<>> THEN <<x>>
    ELSE IF KeyGreater(x, Head(sorted)) THEN <<x>> \o sorted
    ELSE <<Head(sorted)>> \o InsertSorted(Tail(sorted), x)

\* sorted(items, key=..., reverse=True): descending, equal keys keep their order
RECURSIVE SortedReverse(_)
SortedReverse(items) ==
    IF items = <<>> THEN <<>>
    ELSE InsertSorted(SortedReverse(SubSeq(items, 1, Len(items) - 1)), items[Len(items)])

\* variant: the ranking is not cut to n_colors
sorted_colors_all(color_data) == SortedReverse(color_data)

\* lines 171-175
sorted_colors(color_data) ==
    LET s == SortedReverse(color_data)
    IN  SubSeq(s, 1, Min(cfg.n_colors, Len(s)))

\* variant: total_images is the number of images that were processed
FormatResultsProcessed(paths, top) ==
    [empty |-> FALSE,
     total_images |-> ProcessedImages(paths),
     colors |-> [i \in 1..Len(top) |->
                   [color |-> top[i].color, count |-> top[i].count,
                    percentage |-> top[i].average_percentage]]]

\* lines 178-189
FormatResults(paths, top) ==
    [empty |-> FALSE,
     total_images |-> Len(paths),
     colors |-> [i \in 1..Len(top) |->
                   [color |-> top[i].color, count |-> top[i].count,
                    percentage |-> top[i].average_percentage]]]

\* variant: no early return for an empty list of paths
analyze_collection_noguard(files) ==
    LET paths == GlobImages(files)
    IN  FormatResults(paths, sorted_colors(process_image_batch(paths)))

\* lines 163-165 and 167-189
analyze_collection(files) ==
    LET paths == GlobImages(files)
    IN  IF paths = <<>> THEN EmptyDict
        ELSE FormatResults(paths, sorted_colors(process_image_batch(paths)))

\* the keys 'total_images' and 'colors' of lines 179-180, as their characters
KeyTotalImages == <<"t", "o", "t", "a", "l", "_", "i", "m", "a", "g", "e", "s">>
KeyColors == <<"c", "o", "l", "o", "r", "s">>

\* results.items() for the dict of lines 178-189 (and for {}): what a caller
\* iterating the returned dict gets, in insertion order
ResultItems(result) ==
    IF result.empty THEN <<>>
    ELSE <<[key |-> KeyTotalImages, value |-> result.total_images],
           [key |-> KeyColors, value |-> result.colors]>>

\* line 164, and what process_image_batch logs below it
CollectionLog(name, files) ==
    IF GlobImages(files) = <<>>
    THEN {LogRecord("warning", "No images found in directory", name, 0)}
    ELSE BatchLog(name, GlobImages(files))


(***************************************************************************)
(* Season level.  os.listdir(season_dir) is a sequence of entries in       *)
(* listing order; an entry is a designer directory with its files, or a    *)
(* plain file.  A season dict (designer -> data) is the sequence of its    *)
(* items in insertion order.  An output file is absent, complete with the  *)
(* dumped data, or partial (opened for writing, dump not finished).        *)
(***************************************************************************)
Entry(name, isdir, files) == [name |-> name, isdir |-> isdir, files |-> files]

JsonFile(state, data) == [state |-> state, data |-> data]
Absent == JsonFile("absent", <<>>)

\* how open(path, 'w') / json.dump end: normally, open raises, dump raises
WriteOutcomes == {"ok", "open_fails", "dump_fails"}

\* lines 232-233 and 258-259 on the file that was there before
WriteJson(before, data, w) ==
    CASE w = "ok" -> JsonFile("complete", data)
      [] w = "open_fails" -> before
      [] w = "dump_fails" -> JsonFile("partial", <<>>)

\* A JSON number as written: an integer literal, or a literal with a fraction
\* part or exponent; its value is num / den.
JsonNumber(lit, num, den) == [lit |-> lit, num |-> num, den |-> den]

\* json.dump of a Python int
DumpInt(n) == JsonNumber("int", n, 1)

\* json.dump of a float: float.__repr__, the shortest literal that reads back
\* as the same float, always with a '.' or an exponent (100.0, not 100)
DumpFloat(q) == JsonNumber("float", q.num, q.den)

\* json.load of a number: int for an integer literal, float otherwise
LoadNumber(j) == IF j.lit = "int" THEN j.num ELSE [num |-> j.num, den |-> j.den]

Member(key, value) == [key |-> key, value |-> value]

\* json.dump(color_dict, f, indent=2) of line 233: every dict becomes an object
\* with its items as members, in the dict's order
DumpSeason(color_dict) ==
    [k \in 1..Len(color_dict) |->
        Member(color_dict[k].designer,
               <<Member("total_images", DumpInt(color_dict[k].total_images)),
                 Member("colors",
                        [m \in 1..Len(color_dict[k].colors) |->
                            Member(color_dict[k].colors[m].color,
                                   <<Member("count", DumpInt(color_dict[k].colors[m].count)),
                                     Member("percentage",
                                            DumpFloat(color_dict[k].colors[m].percentage))>>)])>>)]

\* the value of the member of an object with the given name
Get(object, key) == object[CHOOSE i \in 1..Len(object) : object[i].key = key].value

\* json.load of the document, as load_color_data returns it: every object a
\* dict with the members as items
LoadSeason(doc) ==
    [k \in 1..Len(doc) |->
        [designer |-> doc[k].key,
         total_images |-> LoadNumber(Get(doc[k].value, "total_images")),
         colors |-> [m \in 1..Len(Get(doc[k].value, "colors")) |->
                       LET member == Get(doc[k].value, "colors")[m]
                       IN  [color |-> member.key,
                            count |-> LoadNumber(Get(member.value, "count")),
                            percentage |-> LoadNumber(Get(member.value, "percentage"))]]]]

\* a call's result: the exception it raised ("none": it returned), the value
\* returned, the output file afterwards and the records logged
Outcome(value, file, log_) == [raised |-> "none", value |-> value, file |-> file, log |-> log_]

\* lines 199-200 (and the test of line 250)
designer_dirs(listing) == SelectSeq(listing, LAMBDA e : e.isdir)

\* variant: a designer without data ends the loop
RECURSIVE CollectDesignersAbort(_, _)
CollectDesignersAbort(dirs, color_dict) ==
    IF dirs = <<>> THEN color_dict
    ELSE LET collection_data == analyze_collection(Head(dirs).files)
         IN  IF collection_data.empty THEN color_dict
             ELSE CollectDesignersAbort(Tail(dirs),
                     Append(color_dict,
                            [designer |-> Head(dirs).name,
                             total_images |-> collection_data.total_images,
                             colors |-> collection_data.colors]))

\* variant: a designer is stored only if its colors mapping is not empty
RECURSIVE CollectDesignersWithColors(_, _)
CollectDesignersWithColors(dirs, color_dict) ==
    IF dirs = <<>> THEN color_dict
    ELSE LET collection_data == analyze_collection(Head(dirs).files)
         IN  CollectDesignersWithColors(Tail(dirs),
                IF ~collection_data.empty /\ collection_data.colors # <<>>
                THEN Append(color_dict,
                            [designer |-> Head(dirs).name,
                             total_images |-> collection_data.total_images,
                             colors |-> collection_data.colors])
                ELSE color_dict)

\* lines 209-228: the loop over the designers, building color_dict
RECURSIVE CollectDesigners(_, _)
CollectDesigners(dirs, color_dict) ==
    IF dirs = <<>> THEN color_dict
    ELSE LET collection_data == analyze_collection(Head(dirs).files)
         IN  CollectDesigners(Tail(dirs),
                IF ~collection_data.empty
                THEN Append(color_dict,
                            [designer |-> Head(dirs).name,
                             total_images |-> collection_data.total_images,
                             colors |-> collection_data.colors])
                ELSE color_dict)

\* what the loop logs: analyze_collection's records and line 228
DesignersLog(dirs) ==
    UNION {CollectionLog(dirs[i].name, dirs[i].files) : i \in 1..Len(dirs)}
    \cup {LogRecord("warning", "No valid data for collection", dirs[i].name, 0)
            : i \in {k \in 1..Len(dirs) : analyze_collection(dirs[k].files).empty}}

\* variant: no early return when there is no designer directory
create_color_dictionary_noguard(listing, before, w) ==
    LET dirs == designer_dirs(listing)
        color_dict == CollectDesigners(dirs, <<>>)
    IN  IF w = "ok"
        THEN Outcome(color_dict, WriteJson(before, color_dict, w), DesignersLog(dirs))
        ELSE Outcome(<<>>, WriteJson(before, color_dict, w),
                     DesignersLog(dirs)
                       \cup {LogRecord("error", "Error creating color dictionary", "", 0)})

\* create_color_dictionary: the value returned, color_dictionary.json afterwards
\* and the log, for a listing, the file found there and the way the write ends
create_color_dictionary(listing, before, w) ==
    LET dirs == designer_dirs(listing)
        color_dict == CollectDesigners(dirs, <<>>)
    IN  IF dirs = <<>>
        THEN Outcome(<<>>, before,
                     {LogRecord("warning", "No designer directories found", "", 0)})
        ELSE IF w = "ok"
        THEN Outcome(color_dict, WriteJson(before, color_dict, w), DesignersLog(dirs))
        ELSE Outcome(<<>>, WriteJson(before, color_dict, w),
                     DesignersLog(dirs)
                       \cup {LogRecord("error", "Error creating color dictionary", "", 0)})

\* lines 248-254: season_colors[designer_dir] = colors for every directory
\* whose analysis is not empty
RECURSIVE SeasonLoop(_, _)
SeasonLoop(listing, season_colors) ==
    IF listing = <<>> THEN season_colors
    ELSE LET e == Head(listing)
             colors == analyze_collection(e.files)
         IN  SeasonLoop(Tail(listing),
                IF e.isdir /\ ~colors.empty
                THEN Append(season_colors,
                            [designer |-> e.name,
                             total_images |-> colors.total_images,
                             colors |-> colors.colors])
                ELSE season_colors)

\* analyze_season: the value returned, color_analysis.json afterwards, the log
analyze_season(listing, before, w) ==
    LET dirs == designer_dirs(listing)
        season_colors == SeasonLoop(listing, <<>>)
        logged == UNION {CollectionLog(dirs[i].name, dirs[i].files) : i \in 1..Len(dirs)}
    IN  IF w = "ok"
        THEN Outcome(season_colors, WriteJson(before, season_colors, w), logged)
        ELSE Outcome(<<>>, WriteJson(before, season_colors, w),
                     logged \cup {LogRecord("error", "Error analyzing season", "", 0)})

(***************************************************************************)
(* The season tree and the calls on it                                     *)
(***************************************************************************)
Designers == {"d1", "d2"}
Extensions == {"jpg", "png", "txt"}

\* a file of a designer directory: one solid colour, or undecodable
SeasonFiles ==
    {ImageFile(e, <<Cluster(c, 4)>>) : e \in {"jpg", "png"}, c \in Palette}
    \cup {CorruptFile(e) : e \in Extensions}

Entries(n) ==
    {Entry(nm, FALSE, <<>>) : nm \in Designers}
    \cup {Entry(nm, TRUE, fs) : nm \in Designers, fs \in SeqsUpTo(SeasonFiles, n)}

\* listings of at most two entries with distinct names and MaxFiles files
Listings ==
    {<<>>}
    \cup {<<e>> : e \in Entries(MaxFiles)}
    \cup UNION {{<<e1, e2>> : e2 \in {x \in Entries(MaxFiles - Len(e1.files)) :
                                        x.name # e1.name}}
                : e1 \in Entries(MaxFiles)}

SeasonConfigs ==
    [n_colors : {1, 2}, resize_size : {2}, min_area_percentage : {2}, batch_size : {2},
     n_jobs : {4}]

Init ==
    /\ cfg \in SeasonConfigs
    /\ cvtOk \in BOOLEAN
    /\ season_dir \in Listings
    /\ image_paths = <<>>
    /\ batch_results = <<>>
    /\ json_files = [color_dictionary |-> Absent, color_analysis |-> Absent]
    /\ call = NoCall
    /\ ret = Outcome(<<>>, Absent, {})
    /\ log = {}
    /\ caseFold = FALSE
    /\ arg = <<>>
    /\ run = NoRun

AnalyzeCollection(i) ==
    /\ call = NoCall
    /\ season_dir[i].isdir
    /\ call' = Call("analyze_collection", season_dir[i].name, "")
    /\ image_paths' = GlobImages(season_dir[i].files)
    /\ batch_results' = BatchResultsOf(GlobImages(season_dir[i].files))
    /\ ret' = Outcome(analyze_collection(season_dir[i].files), Absent, {})
    /\ log' = CollectionLog(season_dir[i].name, season_dir[i].files)
    /\ UNCHANGED <<cfg, cvtOk, season_dir, json_files, caseFold, arg, run>>

CreateColorDictionary(w) ==
    /\ call = NoCall
    /\ LET r == create_color_dictionary(season_dir, json_files.color_dictionary, w)
       IN  /\ call' = Call("create_color_dictionary", "",
                           IF designer_dirs(season_dir) = <<>> THEN "" ELSE w)
           /\ ret' = r
           /\ json_files' = [json_files EXCEPT !.color_dictionary = r.file]
           /\ log' = r.log
    /\ UNCHANGED <<cfg, cvtOk, season_dir, image_paths, batch_results, caseFold, arg, run>>

AnalyzeSeason(w) ==
    /\ call = NoCall
    /\ LET r == analyze_season(season_dir, json_files.color_analysis, w)
       IN  /\ call' = Call("analyze_season", "", w)
           /\ ret' = r
           /\ json_files' = [json_files EXCEPT !.color_analysis = r.file]
           /\ log' = r.log
    /\ UNCHANGED <<cfg, cvtOk, season_dir, image_paths, batch_results, caseFold, arg, run>>

Next ==
    \/ \E i \in 1..Len(season_dir) : AnalyzeCollection(i)
    \/ \E w \in WriteOutcomes : CreateColorDictionary(w)
    \/ \E w \in WriteOutcomes : AnalyzeSeason(w)

Spec == Init /\ [][Next]_vars


(***************************************************************************)
(* create_color_dictionary step by step (SpecSteps): the loop over the     *)
(* designer directories, inside it analyze_collection and the batch loop   *)
(* of process_image_batch, one step where an image starts and one where it *)
(* ends.  The code has one thread of control: ThreadPoolExecutor is        *)
(* imported and self.n_jobs is stored, neither is used.  image_paths and   *)
(* batch_results hold the paths of the current collection and the outcome  *)
(* of every image of it that has ended.                                    *)
(***************************************************************************)
StepConfigs ==
    [n_colors : {1}, resize_size : {2}, min_area_percentage : {2}, batch_size : {1, 2, 3},
     n_jobs : {1, 4}]

StepFiles ==
    {ImageFile("jpg", <<Cluster(c, 4)>>) : c \in {Skin_d9a789, White}}
    \cup {CorruptFile("jpg"), CorruptFile("txt")}

InitSteps ==
    /\ cfg \in StepConfigs
    /\ cvtOk \in BOOLEAN
    /\ season_dir \in {l \in Listings :
                          \A k \in 1..Len(l) : \A f \in 1..Len(l[k].files) :
                              l[k].files[f] \in StepFiles}
    /\ image_paths = <<>>
    /\ batch_results = <<>>
    /\ json_files = [color_dictionary |-> Absent, color_analysis |-> Absent]
    /\ call = NoCall
    /\ ret = Outcome(<<>>, Absent, {})
    /\ log = {}
    /\ caseFold = FALSE
    /\ arg = <<>>
    /\ run = NoRun

\* image-processing tasks in progress
Active == run.started - run.finished

\* one past the last path of the current batch: image_paths[i:i + batch_size]
BatchEnd == Min(run.i + cfg.batch_size, Len(run.paths))

\* variant: images are handed to workers as fast as the loop reaches them
MayStartUnbounded(active) == TRUE

\* the for loop of line 109 runs its body to the end before the next path
MayStart(active) == active = 0

\* variant: every image writes back the accumulator it read before the batch
AccumulateStale(color_data, outcomes) ==
    IF outcomes = <<>> THEN color_data
    ELSE AggregateBatch(color_data, <<outcomes[Len(outcomes)]>>)

\* variant: the accumulator is created anew for every batch
AccumulateFresh(color_data, outcomes) == AggregateBatch(<<>>, outcomes)

\* lines 140-143 applied to the batch_results of the batch that ended
Accumulate(color_data, outcomes) == AggregateBatch(color_data, outcomes)

\* lines 146-153 and 171-189: the dict analyze_collection returns once the
\* batch loop has ended
CollectionData(paths, color_data, total_images) ==
    FormatResults(paths,
        sorted_colors(IF total_images > 0
                      THEN [k \in 1..Len(color_data) |-> WithAverage(color_data[k])]
                      ELSE color_data))

\* lines 197-206
Begin ==
    /\ run.pc = "idle"
    /\ call = NoCall
    /\ call' = Call("create_color_dictionary", "", "")
    /\ LET dirs == designer_dirs(season_dir)
       IN  IF dirs = <<>>
           THEN /\ run' = [run EXCEPT !.pc = "returned"]
                /\ log' = {LogRecord("warning", "No designer directories found", "", 0)}
                /\ ret' = Outcome(<<>>, json_files.color_dictionary, log')
           ELSE /\ run' = [run EXCEPT !.pc = "designer", !.dirs = dirs, !.d = 1]
                /\ UNCHANGED <<log, ret>>
    /\ UNCHANGED <<cfg, cvtOk, season_dir, json_files, image_paths, batch_results,
                   caseFold, arg>>

\* lines 209-214 and 158-168; without images lines 163-165 and 227-228
EnterCollection ==
    /\ run.pc = "designer"
    /\ run.d <= Len(run.dirs)
    /\ LET e == run.dirs[run.d]
           paths == GlobImages(e.files)
       IN  /\ image_paths' = paths
           /\ batch_results' = <<>>
           /\ IF paths = <<>>
              THEN /\ run' = [run EXCEPT !.d = @ + 1, !.paths = <<>>]
                   /\ log' = log \cup
                         {LogRecord("warning", "No images found in directory", e.name, 0),
                          LogRecord("warning", "No valid data for collection", e.name, 0)}
              ELSE /\ run' = [run EXCEPT !.pc = "batch", !.paths = paths, !.i = 0,
                                         !.color_data = <<>>, !.total_images = 0]
                   /\ UNCHANGED log
    /\ UNCHANGED <<cfg, cvtOk, season_dir, json_files, call, ret, caseFold, arg>>

\* lines 105-107: the next batch and its empty batch_results
BatchStart ==
    /\ run.pc = "batch"
    /\ run.i < Len(run.paths)
    /\ run' = [run EXCEPT !.pc = "images", !.started = 0, !.finished = 0, !.batch = <<>>]
    /\ UNCHANGED <<cfg, cvtOk, season_dir, json_files, image_paths, batch_results, call,
                   ret, log, caseFold, arg>>

\* line 109: the loop takes the next path of the batch
StartImage ==
    /\ run.pc = "images"
    /\ run.i + run.started < BatchEnd
    /\ MayStart(Active)
    /\ run' = [run EXCEPT !.started = @ + 1]
    /\ UNCHANGED <<cfg, cvtOk, season_dir, json_files, image_paths, batch_results, call,
                   ret, log, caseFold, arg>>

\* lines 110-137: the image is read, clustered and filtered, or skipped
FinishImage ==
    /\ run.pc = "images"
    /\ run.finished < run.started
    /\ LET j == run.i + run.finished + 1
           out == ProcessPath(run.paths[j])
       IN  /\ run' = [run EXCEPT !.finished = @ + 1,
                                 !.batch = Append(@, out),
                                 !.total_images = IF out.outcome = "ok" THEN @ + 1 ELSE @]
           /\ batch_results' = Append(batch_results, out)
           /\ log' = log \cup
                 CASE out.outcome = "unreadable" ->
                        {LogRecord("warning", "Failed to read image", run.dirs[run.d].name, j)}
                   [] out.outcome = "error" ->
                        {LogRecord("error", "Error processing image", run.dirs[run.d].name, j)}
                   [] OTHER -> {}
    /\ UNCHANGED <<cfg, cvtOk, season_dir, json_files, image_paths, call, ret, caseFold, arg>>

\* lines 139-143, after the last path of the batch
Aggregate ==
    /\ run.pc = "images"
    /\ run.i + run.finished = BatchEnd
    /\ run' = [run EXCEPT !.pc = "batch", !.i = @ + cfg.batch_size,
                          !.color_data = Accumulate(@, run.batch)]
    /\ UNCHANGED <<cfg, cvtOk, season_dir, json_files, image_paths, batch_results, call,
                   ret, log, caseFold, arg>>

\* lines 146-153, 171-189 and 216-225: the collection's entry of color_dict
FinishCollection ==
    /\ run.pc = "batch"
    /\ run.i >= Len(run.paths)
    /\ LET collection_data ==
               CollectionData(run.paths, run.color_data, run.total_images)
       IN  run' = [run EXCEPT !.pc = "designer", !.d = @ + 1,
                              !.color_dict =
                                  Append(@, [designer |-> run.dirs[run.d].name,
                                             total_images |-> collection_data.total_images,
                                             colors |-> collection_data.colors])]
    /\ UNCHANGED <<cfg, cvtOk, season_dir, json_files, image_paths, batch_results, call,
                   ret, log, caseFold, arg>>

\* lines 230-240
Save(w) ==
    /\ run.pc = "designer"
    /\ run.d > Len(run.dirs)
    /\ run' = [run EXCEPT !.pc = "returned"]
    /\ call' = Call("create_color_dictionary", "", w)
    /\ json_files' = [json_files EXCEPT
                         !.color_dictionary = WriteJson(@, run.color_dict, w)]
    /\ log' = IF w = "ok" THEN log
              ELSE log \cup {LogRecord("error", "Error creating color dictionary", "", 0)}
    /\ ret' = Outcome(IF w = "ok" THEN run.color_dict ELSE <<>>,
                      json_files'.color_dictionary, log')
    /\ UNCHANGED <<cfg, cvtOk, season_dir, image_paths, batch_results, caseFold, arg>>

NextSteps ==
    \/ Begin
    \/ EnterCollection
    \/ BatchStart
    \/ StartImage
    \/ FinishImage
    \/ Aggregate
    \/ FinishCollection
    \/ \E w \in WriteOutcomes : Save(w)

SpecSteps == InitSteps /\ [][NextSteps]_vars


(***************************************************************************)
(* is_skin_tone and extract_colors on one colour (SpecColor): arg is a     *)
(* uint8 triple, handed to is_skin_tone as its array, or the centre of the *)
(* one cluster of a solid image handed to extract_colors.                  *)
(***************************************************************************)
\* channel values: the ends of the range, and values whose two hexadecimal
\* digits are 0 and a digit, 0 and a letter, a letter and 0
ChannelValues == {0, 9, 10, 160, 255}

TestColors == {RGB(r, g, b) : r \in ChannelValues, g \in ChannelValues, b \in ChannelValues}
              \cup Palette

InitColor ==
    /\ cfg \in Configs
    /\ cvtOk = TRUE
    /\ arg \in TestColors
    /\ image_paths = <<>>
    /\ batch_results = <<>>
    /\ season_dir = <<>>
    /\ json_files = <<>>
    /\ call = NoCall
    /\ ret = <<>>
    /\ log = {}
    /\ caseFold = FALSE
    /\ run = NoRun

\* is_skin_tone(color) on a uint8 array
IsSkinTone ==
    /\ call = NoCall
    /\ call' = Call("is_skin_tone", "", "")
    /\ ret' = is_skin_tone(arg)
    /\ UNCHANGED <<cfg, cvtOk, arg, image_paths, batch_results, season_dir, json_files, log,
                   caseFold, run>>

\* extract_colors(image) on an image k-means clusters into one label
ExtractColors ==
    /\ call = NoCall
    /\ call' = Call("extract_colors", "", "")
    /\ ret' = extract_colors(ImageFile("jpg", <<Cluster(arg, TotalPixels)>>))
    /\ UNCHANGED <<cfg, cvtOk, arg, image_paths, batch_results, season_dir, json_files, log,
                   caseFold, run>>

NextColor == IsSkinTone \/ ExtractColors

SpecColor == InitColor /\ [][NextColor]_vars


(***************************************************************************)
(* Which files of a designer directory are images (SpecEnum): the glob of  *)
(* analyze_collection and the count generate_color_dictionary.py takes of  *)
(* the same directory before it runs the analysis.                         *)
(***************************************************************************)
\* the suffixes of generate_color_dictionary.py line 57
ImageSuffixes == {"jpg", "jpeg", "png"}

\* generate_color_dictionary.py lines 56-57: the names of os.listdir whose
\* lower-cased form ends with one of the suffixes
CountedImages(files) == SelectSeq(files, LAMBDA f : Lower(f.ext) \in ImageSuffixes)

EnumExtensions == {"jpg", "jpeg", "png", "JPG", "Png", "txt"}

EnumFiles == {ImageFile(e, <<Cluster(White, 4)>>) : e \in EnumExtensions}

InitEnum ==
    /\ cfg \in SeasonConfigs
    /\ cvtOk \in BOOLEAN
    /\ caseFold \in BOOLEAN
    /\ season_dir \in {<<Entry("d1", TRUE, fs)>> : fs \in SeqsUpTo(EnumFiles, MaxFiles)}
    /\ image_paths = <<>>
    /\ batch_results = <<>>
    /\ json_files = [color_dictionary |-> Absent, color_analysis |-> Absent]
    /\ call = NoCall
    /\ ret = Outcome(<<>>, Absent, {})
    /\ log = {}
    /\ arg = <<>>
    /\ run = NoRun

\* generate_color_dictionary.py lines 54-59 for one designer directory
CountImages(i) ==
    /\ call = NoCall
    /\ season_dir[i].isdir
    /\ call' = Call("count_images", season_dir[i].name, "")
    /\ image_paths' = CountedImages(season_dir[i].files)
    /\ ret' = Outcome(Len(CountedImages(season_dir[i].files)), Absent, {})
    /\ log' = {LogRecord("info", "Found images in", season_dir[i].name,
                         Len(CountedImages(season_dir[i].files)))}
    /\ UNCHANGED <<cfg, cvtOk, season_dir, json_files, batch_results, caseFold, arg, run>>

\* the key generate_color_dictionary.py line 78 reads from a designer's entry
KeyTopColors == <<"t", "o", "p", "_", "c", "o", "l", "o", "r", "s">>

\* the keys of a designer's entry of color_dict (lines 217-220 store the dict
\* of lines 178-189)
EntryKeys(item) ==
    LET items == ResultItems([empty |-> FALSE, total_images |-> item.total_images,
                              colors |-> item.colors])
    IN  {items[i].key : i \in 1..Len(items)}

\* generate_color_dictionary.py lines 76-79: the summary lines logged, or the
\* KeyError of data['top_colors'] at the first designer
Summary(color_dict) ==
    IF \E k \in 1..Len(color_dict) : KeyTopColors \notin EntryKeys(color_dict[k])
    THEN [raised |-> "KeyError", lines |-> {}]
    ELSE [raised |-> "none",
          lines |-> UNION {{LogRecord("info", "color summary", color_dict[k].designer, m)
                              : m \in 1..Len(color_dict[k].colors)}
                             : k \in 1..Len(color_dict)}]

\* generate_color_dictionary(): lines 41-84 on an existing season directory
generate_color_dictionary(listing, before, w) ==
    LET dirs == designer_dirs(listing)
        total_images == SeqSum([i \in 1..Len(dirs) |-> Len(CountedImages(dirs[i].files))])
        Logged(r, s) ==
            [raised |-> s.raised, value |-> r.value, file |-> r.file,
             log |-> r.log \cup s.lines
                       \cup IF s.raised = "none" THEN {}
                            ELSE {LogRecord("error", "Error generating color dictionary",
                                            "", 0)}]
        Created(r) ==
            IF r.value = <<>>
            THEN [raised |-> "none", value |-> <<>>, file |-> r.file,
                  log |-> r.log \cup {LogRecord("error", "No colors were extracted", "", 0)}]
            ELSE Logged(r, Summary(r.value))
    IN  IF dirs = <<>>
        THEN [raised |-> "none", value |-> <<>>, file |-> before,
              log |-> {LogRecord("error", "No designer directories found in", "", 0)}]
        ELSE IF total_images = 0
        THEN [raised |-> "none", value |-> <<>>, file |-> before,
              log |-> {LogRecord("error", "No images found in any designer directory", "", 0)}]
        ELSE Created(create_color_dictionary(listing, before, w))

GenerateColorDictionary(w) ==
    /\ call = NoCall
    /\ LET r == generate_color_dictionary(season_dir, json_files.color_dictionary, w)
       IN  /\ call' = Call("generate_color_dictionary", "", w)
           /\ ret' = r
           /\ json_files' = [json_files EXCEPT !.color_dictionary = r.file]
           /\ log' = r.log
    /\ UNCHANGED <<cfg, cvtOk, season_dir, image_paths, batch_results, caseFold, arg, run>>

NextEnum ==
    \/ \E i \in 1..Len(season_dir) : AnalyzeCollection(i)
    \/ \E i \in 1..Len(season_dir) : CountImages(i)
    \/ \E w \in WriteOutcomes : GenerateColorDictionary(w)

SpecEnum == InitEnum /\ [][NextEnum]_vars


(***************************************************************************)
(* The shape of the pixel grid (SpecGrid): lines 112-121 hand the decoded  *)
(* image to preprocess_image and its result to extract_colors.  arg is the *)
(* shape <<h, w>> of the decoded image.                                    *)
(***************************************************************************)
Max(a, b) == IF a > b THEN a ELSE b

\* lines 48-53: the shape after preprocess_image; int() truncates w * scale
preprocess_image(shape) ==
    LET h == shape[1]
        w == shape[2]
    IN  IF Max(h, w) > cfg.resize_size
        THEN <<(h * cfg.resize_size) \div Max(h, w), (w * cfg.resize_size) \div Max(h, w)>>
        ELSE shape

\* cv2.resize raises for a target size with a zero edge
ResizeRaises(shape) ==
    /\ Max(shape[1], shape[2]) > cfg.resize_size
    /\ 0 \in {preprocess_image(shape)[1], preprocess_image(shape)[2]}

\* line 73: the shape extract_colors clusters, whatever shape it is given
ClusteredShape(shape) == <<cfg.resize_size, cfg.resize_size>>

GridConfigs ==
    [n_colors : {1}, resize_size : {2, 4}, min_area_percentage : {2}, batch_size : {2},
     n_jobs : {4}]

InitGrid ==
    /\ cfg \in GridConfigs
    /\ cvtOk = TRUE
    /\ arg \in {<<h, w>> : h \in 1..MaxEdge, w \in 1..MaxEdge}
    /\ image_paths = <<>>
    /\ batch_results = <<>>
    /\ season_dir = <<>>
    /\ json_files = <<>>
    /\ call = NoCall
    /\ ret = <<>>
    /\ log = {}
    /\ caseFold = FALSE
    /\ run = NoRun

\* lines 118-121 for one decoded image, up to the grid that is clustered
PreprocessAndExtract ==
    /\ call = NoCall
    /\ call' = Call("preprocess_image, extract_colors", "", "")
    /\ ret' = IF ResizeRaises(arg)
              THEN [raised |-> TRUE, preprocessed |-> <<>>, clustered |-> <<>>]
              ELSE [raised |-> FALSE, preprocessed |-> preprocess_image(arg),
                    clustered |-> ClusteredShape(preprocess_image(arg))]
    /\ UNCHANGED <<cfg, cvtOk, arg, image_paths, batch_results, season_dir, json_files, log,
                   caseFold, run>>

NextGrid == PreprocessAndExtract

SpecGrid == InitGrid /\ [][NextGrid]_vars


(***************************************************************************)
(* The shared clustering object (SpecFit): self.kmeans is built once, at   *)
(* lines 34-39, with random_state=42, and extract_colors fits it to every  *)
(* image in turn.  arg is the object: whether it has been fitted, and the  *)
(* cluster_centers_ and label counts it holds.  image_paths are the images *)
(* handed to extract_colors, batch_results what each call returned.        *)
(***************************************************************************)
KMeans(fitted, clusters) == [fitted |-> fitted, clusters |-> clusters]

\* variant: a fitted object keeps its centres (as partial_fit would) and only
\* relabels the pixels of the new image
FitWarmStart(kmeans, image) ==
    IF kmeans.fitted
    THEN KMeans(TRUE, [i \in 1..Len(image.clusters) |->
                         Cluster(kmeans.clusters[Min(i, Len(kmeans.clusters))].center,
                                 image.clusters[i].n)])
    ELSE KMeans(TRUE, image.clusters)

\* line 79, self.kmeans.fit(pixels): with an int random_state fit seeds a new
\* generator and initialises the centres anew, so what the object holds after
\* it is the clustering of these pixels
Fit(kmeans, image) == KMeans(TRUE, image.clusters)

\* lines 82-96 on the fitted object: zip(colors, percentages)
ColorsOf(kmeans) ==
    [i \in 1..Len(kmeans.clusters) |->
        [color |-> HexColor(kmeans.clusters[i].center),
         percentage |-> Percentage(kmeans.clusters[i].n)]]

FitFiles == {f \in BatchFiles : f.readable}

InitFit ==
    /\ cfg \in {c \in Configs : c.min_area_percentage = 2 /\ c.batch_size = 1}
    /\ cvtOk = TRUE
    /\ image_paths \in SeqsUpTo(FitFiles, MaxPaths)
    /\ \A j \in 1..Len(image_paths) : FitsConfig(image_paths[j], cfg)
    /\ arg = KMeans(FALSE, <<>>)
    /\ batch_results = <<>>
    /\ season_dir = <<>>
    /\ json_files = <<>>
    /\ call = NoCall
    /\ ret = <<>>
    /\ log = {}
    /\ caseFold = FALSE
    /\ run = NoRun

\* extract_colors(image) for the next image, on the one instance
ExtractNext ==
    /\ Len(batch_results) < Len(image_paths)
    /\ LET image == image_paths[Len(batch_results) + 1]
       IN  /\ arg' = Fit(arg, image)
           /\ ret' = ColorsOf(arg')
           /\ batch_results' = Append(batch_results, ret')
    /\ call' = Call("extract_colors", "", "")
    /\ UNCHANGED <<cfg, cvtOk, image_paths, season_dir, json_files, log, caseFold, run>>

NextFit == ExtractNext

SpecFit == InitFit /\ [][NextFit]_vars


(***************************************************************************)
(* DatasetGenerator.generate_dataset of                                    *)
(* src/src/model_training/dataset_generator.py (SpecDataset).  image_paths *)
(* is the list os.walk yields: a source image is its directory, its file   *)
(* name and what process_image returns for it, None or the labels.  The    *)
(* pool runs at most n_jobs futures at a time, taken in submission order   *)
(* and finished in any order; the main thread waits for the futures in     *)
(* submission order.  run holds the futures, the index of the future the   *)
(* main thread waits for, results, the index of the result being copied,   *)
(* dataset_info and the files of the output tree.                          *)
(***************************************************************************)
\* lines 197-201: category, style and pattern of the top predictions
Labels(category, style, pattern) ==
    [labeled |-> TRUE, category |-> category, style |-> style, pattern |-> pattern]

\* process_image returned None (lines 208, 212-214)
None == [labeled |-> FALSE, category |-> "", style |-> "", pattern |-> ""]

SourceImage(dir, file, result) == [dir |-> dir, file |-> file, result |-> result]

\* lines 103-128: the super category of each label that occurs below
category_to_super == [c \in {"shirt", "dress"} |-> IF c = "shirt" THEN "tops" ELSE "dresses"]
style_to_super == [c \in {"casual", "formal"} |-> "core_aesthetics"]
pattern_to_super ==
    [c \in {"floral", "lace"} |-> IF c = "floral" THEN "classic_patterns" ELSE "textures"]

\* dataset_info of lines 262-271; the defaultdicts as functions, 0 for a key
\* that was never touched; made FALSE before line 262 is reached
DatasetInfo(total, labeled) ==
    [made |-> TRUE, total_images |-> total, labeled_images |-> labeled,
     categories |-> [c \in DOMAIN category_to_super |-> 0],
     super_categories |-> [c \in {"tops", "dresses"} |-> 0],
     styles |-> [c \in DOMAIN style_to_super |-> 0],
     patterns |-> [c \in DOMAIN pattern_to_super |-> 0]]

NoDatasetInfo == [DatasetInfo(0, 0) EXCEPT !.made = FALSE]

\* variant: the count of a label is set to 1, not incremented
SetOne(counts, label) == [counts EXCEPT ![label] = 1]

\* dataset_info[...][label] += 1
AddOne(counts, label) == [counts EXCEPT ![label] = @ + 1]

\* os.path.join(output_dir, kind, super, os.path.basename(src_path))
DstPath(kind, super, file) == <<kind, super, file>>

DatasetRun(pc, futures, next, results, k, info, tree) ==
    [pc |-> pc, futures |-> futures, next |-> next, results |-> results, k |-> k,
     dataset_info |-> info, tree |-> tree]

SourcePaths == {<<d, f>> : d \in Designers, f \in {"look_000.jpg", "look_001.jpg"}}

ProcessResults ==
    {None, Labels("shirt", "casual", "floral"), Labels("dress", "formal", "lace")}

InitDataset ==
    /\ cfg \in [n_jobs : {1, 2}]
    /\ image_paths \in
          {s \in SeqsUpTo({SourceImage(q[1], q[2], r) : q \in SourcePaths, r \in ProcessResults},
                          MaxPaths) :
              \A i, j \in 1..Len(s) : i # j => <<s[i].dir, s[i].file>> # <<s[j].dir, s[j].file>>}
    /\ run = DatasetRun("idle", <<>>, 1, <<>>, 1, NoDatasetInfo, {})
    /\ cvtOk = TRUE
    /\ batch_results = <<>>
    /\ season_dir = <<>>
    /\ json_files = [dataset_info |-> Absent]
    /\ call = NoCall
    /\ ret = <<>>
    /\ log = {}
    /\ caseFold = FALSE
    /\ arg = <<>>

Running == Cardinality({i \in 1..Len(run.futures) : run.futures[i] = "running"})

\* lines 237-254: the paths are collected and every one is submitted
Submit ==
    /\ run.pc = "idle"
    /\ call = NoCall
    /\ call' = Call("generate_dataset", "", "")
    /\ IF image_paths = <<>>
       THEN /\ run' = [run EXCEPT !.pc = "returned"]
            /\ log' = {LogRecord("error", "No images found in", "", 0)}
       ELSE /\ run' = [run EXCEPT !.pc = "pool",
                                  !.futures = [i \in 1..Len(image_paths) |-> "queued"]]
            /\ UNCHANGED log
    /\ UNCHANGED <<cfg, cvtOk, image_paths, batch_results, season_dir, json_files, ret,
                   caseFold, arg>>

\* a worker of ThreadPoolExecutor(max_workers=n_jobs) takes the oldest queued call
WorkerStart(i) ==
    /\ run.pc = "pool"
    /\ run.futures[i] = "queued"
    /\ \A j \in 1..(i - 1) : run.futures[j] # "queued"
    /\ Running < cfg.n_jobs
    /\ run' = [run EXCEPT !.futures[i] = "running"]
    /\ UNCHANGED <<cfg, cvtOk, image_paths, batch_results, season_dir, json_files, call,
                   ret, log, caseFold, arg>>

\* process_image(path) returns in the worker: the future is done
WorkerFinish(i) ==
    /\ run.pc = "pool"
    /\ run.futures[i] = "running"
    /\ run' = [run EXCEPT !.futures[i] = "done"]
    /\ UNCHANGED <<cfg, cvtOk, image_paths, batch_results, season_dir, json_files, call,
                   ret, log, caseFold, arg>>

\* lines 256-259: future.result() of the next future in submission order
Collect ==
    /\ run.pc = "pool"
    /\ run.next <= Len(run.futures)
    /\ run.futures[run.next] = "done"
    /\ run' = [run EXCEPT !.next = @ + 1,
                          !.results = IF image_paths[run.next].result.labeled
                                      THEN Append(@, image_paths[run.next])
                                      ELSE @]
    /\ UNCHANGED <<cfg, cvtOk, image_paths, batch_results, season_dir, json_files, call,
                   ret, log, caseFold, arg>>

\* lines 262-271, after the with block of line 252 has ended
Organize ==
    /\ run.pc = "pool"
    /\ run.next > Len(run.futures)
    /\ run' = [run EXCEPT !.pc = "copy", !.k = 1,
                          !.dataset_info = DatasetInfo(Len(image_paths), Len(run.results))]
    /\ UNCHANGED <<cfg, cvtOk, image_paths, batch_results, season_dir, json_files, call,
                   ret, log, caseFold, arg>>

\* lines 274-300 for one result: the counts, and three copies by base name
CopyResult ==
    /\ run.pc = "copy"
    /\ run.k <= Len(run.results)
    /\ LET result == run.results[run.k].result
           filename == run.results[run.k].file
           info == run.dataset_info
       IN  run' = [run EXCEPT
                     !.k = @ + 1,
                     !.dataset_info =
                         [info EXCEPT
                            !.categories = AddOne(@, result.category),
                            !.super_categories = AddOne(@, category_to_super[result.category]),
                            !.styles = AddOne(@, result.style),
                            !.patterns = AddOne(@, result.pattern)],
                     !.tree = @ \cup
                         {DstPath("categories", category_to_super[result.category], filename),
                          DstPath("styles", style_to_super[result.style], filename),
                          DstPath("patterns", pattern_to_super[result.pattern], filename)}]
    /\ UNCHANGED <<cfg, cvtOk, image_paths, batch_results, season_dir, json_files, call,
                   ret, log, caseFold, arg>>

\* lines 302-314: dataset_info.json is written and dataset_info returned, or
\* the write raises and {} is returned
SaveInfo(w) ==
    /\ run.pc = "copy"
    /\ run.k > Len(run.results)
    /\ run' = [run EXCEPT !.pc = "returned"]
    /\ call' = Call("generate_dataset", "", w)
    /\ json_files' = [json_files EXCEPT !.dataset_info = WriteJson(@, run.dataset_info, w)]
    /\ ret' = IF w = "ok" THEN run.dataset_info ELSE NoDatasetInfo
    /\ log' = IF w = "ok" THEN log
              ELSE log \cup {LogRecord("error", "Error generating dataset", "", 0)}
    /\ UNCHANGED <<cfg, cvtOk, image_paths, batch_results, season_dir, caseFold, arg>>

NextDataset ==
    \/ Submit
    \/ \E i \in 1..Len(run.futures) : WorkerStart(i)
    \/ \E i \in 1..Len(run.futures) : WorkerFinish(i)
    \/ Collect
    \/ Organize
    \/ CopyResult
    \/ \E w \in WriteOutcomes : SaveInfo(w)

SpecDataset == InitDataset /\ [][NextDataset]_vars


(***************************************************************************)
(* RunwayScraper.scrape_season of src/src/data_collection/runway_scraper.py*)
(* (SpecScrape).  arg is what the site serves: the show links of the       *)
(* landing page, distinct as get_show_links keeps them, each with the      *)
(* designer name get_runway_images derives from its URL ("" when none) and *)
(* the way the download of each of its images ends.  run holds the         *)
(* position in the loop, season_data['shows'] as the sequence of its items *)
(* in insertion order, and the number of calls of _save_season_data.       *)
(***************************************************************************)
MaxShows == 2
MaxImages == 2

\* how download_image ends: status 200 and the file written, another status
\* (line 133), or an exception after the response (line 149)
DownloadOutcomes == {"200", "404", "200_write_raises"}

Show(url, designer, images) == [url |-> url, designer |-> designer, images |-> images]

\* lines 126-151: the path save_dir/<designer>/look_<idx>.jpg, or None as <<>>
download_image(outcome, designer, idx) == IF outcome = "200" THEN <<designer, idx>> ELSE <<>>

\* lines 173-178: the paths of the downloads that returned one, idx from 0
RECURSIVE DownloadAll(_, _, _)
DownloadAll(images, designer, idx) ==
    IF idx >= Len(images) THEN <<>>
    ELSE LET path == download_image(images[idx + 1], designer, idx)
         IN  (IF path # <<>> THEN <<path>> ELSE <<>>) \o DownloadAll(images, designer, idx + 1)

\* season_data['shows'][designer] = {...} (lines 181-185): a new key goes
\* last, an existing key keeps its place and gets the new value
StoreShow(shows, designer, show_url, paths) ==
    LET item == [designer |-> designer, url |-> show_url, image_count |-> Len(paths),
                 image_paths |-> paths]
    IN  IF \E n \in 1..Len(shows) : shows[n].designer = designer
        THEN [n \in 1..Len(shows) |-> IF shows[n].designer = designer THEN item ELSE shows[n]]
        ELSE Append(shows, item)

ScrapeRun(pc, i, shows, saves) == [pc |-> pc, i |-> i, shows |-> shows, saves |-> saves]

ShowLinks ==
    {s \in SeqsUpTo({Show(u, d, im) : u \in {"show_a", "show_b"}, d \in {"", "Chanel", "Dior"},
                                      im \in SeqsUpTo(DownloadOutcomes, MaxImages)}, MaxShows) :
        \A i, j \in 1..Len(s) : i # j => s[i].url # s[j].url}

InitScrape ==
    /\ arg \in ShowLinks
    /\ run = ScrapeRun("idle", 1, <<>>, 0)
    /\ json_files = [season_data |-> Absent]
    /\ cfg = <<>>
    /\ cvtOk = TRUE
    /\ image_paths = <<>>
    /\ batch_results = <<>>
    /\ season_dir = <<>>
    /\ call = NoCall
    /\ ret = <<>>
    /\ log = {}
    /\ caseFold = FALSE

\* lines 155-162
BeginScrape ==
    /\ run.pc = "idle"
    /\ run' = [run EXCEPT !.pc = "loop"]
    /\ call' = Call("scrape_season", "", "")
    /\ UNCHANGED <<cfg, cvtOk, image_paths, batch_results, season_dir, json_files, ret, log,
                   caseFold, arg>>

\* lines 164-188 for one show: skipped without a designer name, else
\* downloaded, stored and saved; an exception of the save leaves scrape_season
ProcessShow(w) ==
    /\ run.pc = "loop"
    /\ run.i <= Len(arg)
    /\ LET show == arg[run.i]
           shows == StoreShow(run.shows, show.designer, show.url,
                              DownloadAll(show.images, show.designer, 0))
       IN  IF show.designer = ""
           THEN /\ run' = [run EXCEPT !.i = @ + 1]
                /\ log' = log \cup {LogRecord("warning", "Could not find designer name for",
                                               "", show.url)}
                /\ UNCHANGED <<json_files, call>>
           ELSE /\ run' = [run EXCEPT !.i = @ + 1, !.shows = shows, !.saves = @ + 1,
                                      !.pc = IF w = "ok" THEN "loop" ELSE "raised"]
                /\ json_files' = [json_files EXCEPT !.season_data = WriteJson(@, shows, w)]
                /\ call' = Call("scrape_season", "", w)
                /\ UNCHANGED log
    /\ UNCHANGED <<cfg, cvtOk, image_paths, batch_results, season_dir, ret, caseFold, arg>>

\* line 190
ReturnSeasonData ==
    /\ run.pc = "loop"
    /\ run.i > Len(arg)
    /\ run' = [run EXCEPT !.pc = "returned"]
    /\ ret' = run.shows
    /\ UNCHANGED <<cfg, cvtOk, image_paths, batch_results, season_dir, json_files, call, log,
                   caseFold, arg>>

NextScrape ==
    \/ BeginScrape
    \/ \E w \in WriteOutcomes : ProcessShow(w)
    \/ ReturnSeasonData

SpecScrape == InitScrape /\ [][NextScrape]_vars


(***************************************************************************)
(* Properties of process_image_batch (checked under SpecBatch)             *)
(***************************************************************************)
BatchDone == call.op = "process_image_batch"

\* the per-colour statistics of a returned dict: colour, count, average
StatsOf(items) ==
    {[color |-> items[i].color, count |-> items[i].count,
      average_percentage |-> items[i].average_percentage] : i \in 1..Len(items)}

Without(s, j) == SubSeq(s, 1, j - 1) \o SubSeq(s, j + 1, Len(s))

Permuted(s, p) == [j \in 1..Len(s) |-> s[p[j]]]

\* every observation stored in batch_results, in aggregation order
Contributed ==
    Flatten([j \in 1..Len(batch_results) |-> batch_results[j].results])

C2_SkinExcluded ==
    BatchDone => \A i \in 1..Len(ret) : ~is_skin_tone(ColorRGB(ret[i].color))

DropSmall(file) ==
    [file EXCEPT !.clusters =
        SelectSeq(@, LAMBDA c : (c.n * 100) \div TotalPixels >= cfg.min_area_percentage)]

\* C4: every observation added to the accumulator has a percentage of at
\* least min_area_percentage, and the clusters under the threshold change no
\* count and no total_percentage: the result is that of the same images
\* without those clusters.
C4_AreaThreshold ==
    BatchDone =>
        /\ \A k \in 1..Len(Contributed) :
              Contributed[k].percentage >= cfg.min_area_percentage
        /\ ret = process_image_batch([j \in 1..Len(image_paths) |-> DropSmall(image_paths[j])])

C4_Witness ==
    /\ BatchDone
    /\ \E j \in 1..Len(image_paths) :
          /\ batch_results[j].outcome = "ok"
          /\ batch_results[j].results # <<>>
          /\ \E k \in 1..Len(image_paths[j].clusters) :
                /\ image_paths[j].clusters[k].n > 0
                /\ (image_paths[j].clusters[k].n * 100) \div TotalPixels
                      < cfg.min_area_percentage

\* the retained observations of one colour
ObservationsOf(color) == SelectSeq(Contributed, LAMBDA o : o.color = color)

\* C5: for every colour of the result, count is the number of retained
\* observations of that colour over the processed images, total_percentage
\* is the sum of their percentages, count >= 1 and average_percentage is
\* present and equals total_percentage / count; every retained colour is a key.
C5_AggregationRule ==
    BatchDone =>
        /\ \A i \in 1..Len(ret) :
              LET obs == ObservationsOf(ret[i].color)
              IN  /\ ret[i].count = Len(obs)
                  /\ ret[i].total_percentage =
                        SeqSum([k \in 1..Len(obs) |-> obs[k].percentage])
                  /\ ret[i].count >= 1
                  /\ "average_percentage" \in DOMAIN ret[i]
                  /\ ret[i].average_percentage.den > 0
                  /\ ret[i].average_percentage.num * ret[i].count
                        = ret[i].total_percentage * ret[i].average_percentage.den
        /\ \A i, j \in 1..Len(ret) : ret[i].color = ret[j].color => i = j
        /\ \A k \in 1..Len(Contributed) :
              \E i \in 1..Len(ret) : ret[i].color = Contributed[k].color

C5_Witness ==
    /\ BatchDone
    /\ \E i \in 1..Len(ret) : ret[i].count >= 2 /\ ret[i].average_percentage.den = 2

\* C6: every permutation of the list of paths gives the same mapping from
\* colour to (count, average_percentage).
C6_OrderIndependent ==
    BatchDone =>
        \A p \in Perms(Len(image_paths)) :
            StatsOf(process_image_batch(Permuted(image_paths, p))) = StatsOf(ret)

C6_Witness ==
    /\ BatchDone
    /\ Len(image_paths) >= 2
    /\ image_paths[1] # image_paths[2]
    /\ \E i \in 1..Len(ret) :
          /\ ret[i].count >= 2
          /\ \E k \in 1..Len(batch_results[1].results) :
                /\ batch_results[1].results[k].color = ret[i].color
                /\ \E m \in 1..Len(batch_results[2].results) :
                      /\ batch_results[2].results[m].color = ret[i].color
                      /\ batch_results[2].results[m].percentage
                            # batch_results[1].results[k].percentage

(***************************************************************************)
(* Properties of analyze_collection and of the season drivers (Spec)       *)
(***************************************************************************)
CollectionDone == call.op = "analyze_collection"
DictionaryDone == call.op = "create_color_dictionary"
SeasonDone == call.op = "analyze_season"

\* the colors of analyze_collection's result for a list of paths
RankedColors(paths) == FormatResults(paths, sorted_colors(process_image_batch(paths))).colors

\* C7: the colour list of analyze_collection is sorted by (count descending,
\* average percentage descending) and is the same ordered list for every
\* processing order of the collection's images, ties included.
C7_DeterministicRanking ==
    (CollectionDone /\ image_paths # <<>>) =>
        /\ \A i \in 1..(Len(ret.value.colors) - 1) :
              LET a == ret.value.colors[i]
                  b == ret.value.colors[i + 1]
              IN  \/ a.count > b.count
                  \/ /\ a.count = b.count
                     /\ a.percentage.num * b.percentage.den
                           >= b.percentage.num * a.percentage.den
        /\ \A p \in Perms(Len(image_paths)) :
              RankedColors(Permuted(image_paths, p)) = ret.value.colors

NothingWritten == json_files = [color_dictionary |-> Absent, color_analysis |-> Absent]

NoDesignerDirs == designer_dirs(season_dir) = <<>>

ItemOf(e) ==
    LET data == analyze_collection(e.files)
    IN  [designer |-> e.name, total_images |-> data.total_images, colors |-> data.colors]

HasItem(dict, item) == \E k \in 1..Len(dict) : dict[k] = item

\* C10: in create_color_dictionary and analyze_season a designer directory
\* that yields no data does not keep the others from being analysed: every
\* designer directory with data has its statistics in the returned dict and
\* in the file written (for a run whose write succeeds).
C10_FailureIsolation ==
    /\ (DictionaryDone /\ call.write = "ok") =>
          \A i \in 1..Len(season_dir) :
              (season_dir[i].isdir /\ ~analyze_collection(season_dir[i].files).empty) =>
                  /\ HasItem(ret.value, ItemOf(season_dir[i]))
                  /\ json_files.color_dictionary.state = "complete"
                  /\ HasItem(json_files.color_dictionary.data, ItemOf(season_dir[i]))
    /\ (SeasonDone /\ call.write = "ok") =>
          \A i \in 1..Len(season_dir) :
              (season_dir[i].isdir /\ ~analyze_collection(season_dir[i].files).empty) =>
                  /\ HasItem(ret.value, ItemOf(season_dir[i]))
                  /\ json_files.color_analysis.state = "complete"
                  /\ HasItem(json_files.color_analysis.data, ItemOf(season_dir[i]))

C10_Witness ==
    /\ DictionaryDone
    /\ call.write = "ok"
    /\ Len(season_dir) = 2
    /\ season_dir[1].isdir /\ analyze_collection(season_dir[1].files).empty
    /\ season_dir[2].isdir /\ ~analyze_collection(season_dir[2].files).empty
    /\ Len(ret.value) = 1
    /\ ret.value[1].colors # <<>>

(***************************************************************************)
(* Persistence (checked under Spec)                                        *)
(***************************************************************************)
WriteFailed == call.write \in {"open_fails", "dump_fails"}

\* the call reached its open(output_path, 'w')
WriteAttempted == (DictionaryDone /\ ~NoDesignerDirs) \/ SeasonDone

\* C11: when writing the output JSON fails in create_color_dictionary or
\* analyze_season, the call raises to its caller; it does not return a value.
C11_PersistenceFailurePropagates ==
    (WriteAttempted /\ WriteFailed) => ret.raised # "none"

\* C12: a reader of color_dictionary.json / color_analysis.json finds no file,
\* the previous complete file or the new complete file, never a file that is
\* partially written, also when the dump is interrupted.
C12_AtomicPersistence ==
    /\ json_files.color_dictionary.state \in {"absent", "complete"}
    /\ json_files.color_analysis.state \in {"absent", "complete"}

(***************************************************************************)
(* The season run step by step (checked under SpecSteps)                   *)
(***************************************************************************)
\* the step-by-step run returns what create_color_dictionary returns
StepsAgree ==
    run.pc = "returned" =>
        ret = create_color_dictionary(season_dir, Absent, call.write)

\* C13: at every moment of a season run the number of image-processing tasks
\* in progress is between 0 and n_jobs, inside the nested loops over the
\* designers, the batches and the images as well.
C13_BoundedConcurrency ==
    /\ Active >= 0
    /\ Active <= cfg.n_jobs

C13_Witness ==
    /\ run.pc = "images"
    /\ run.d = 2
    /\ Active = 1
    /\ cfg.n_jobs = 1
    /\ cfg.batch_size = 2
    /\ Len(run.paths) = 2

\* the observations of the images 1..n of the current collection
ContributedUpTo(n) ==
    Flatten([j \in 1..n |-> IF batch_results[j].outcome = "ok"
                             THEN batch_results[j].results ELSE <<>>])

\* color_data holds, for every colour of the observations obs and for no
\* other, their number as count and the sum of their percentages
SumsUp(color_data, obs) ==
    /\ \A k \in 1..Len(obs) : \E m \in 1..Len(color_data) : color_data[m].color = obs[k].color
    /\ \A m \in 1..Len(color_data) :
          LET mine == SelectSeq(obs, LAMBDA o : o.color = color_data[m].color)
          IN  /\ mine # <<>>
              /\ color_data[m].count = Len(mine)
              /\ color_data[m].total_percentage
                    = SeqSum([k \in 1..Len(mine) |-> mine[k].percentage])
              /\ \A n \in 1..Len(color_data) :
                    color_data[n].color = color_data[m].color => n = m

\* C14: the accumulator is updated only between batches, when no image task
\* is in progress, and loses no update: at every point it holds the sum of
\* the contributions of all images of the batches that have ended, and after
\* the last batch the sum of the contributions of all images.
C14_NoLostUpdates ==
    /\ run.pc = "batch" =>
          /\ Active = 0
          /\ SumsUp(run.color_data, ContributedUpTo(Min(run.i, Len(run.paths))))
    /\ run.pc = "images" => SumsUp(run.color_data, ContributedUpTo(run.i))
    /\ (run.pc = "batch" /\ run.i >= Len(run.paths)) =>
          /\ Len(batch_results) = Len(run.paths)
          /\ SumsUp(run.color_data, ContributedUpTo(Len(run.paths)))

C14_Witness ==
    /\ run.pc = "batch"
    /\ run.i >= Len(run.paths)
    /\ Len(run.paths) = 2
    /\ cfg.batch_size = 2
    /\ Len(run.color_data) = 1
    /\ run.color_data[1].count = 2
    /\ run.color_data[1].total_percentage = 200

(***************************************************************************)
(* Counts against images (checked under SpecBatch)                         *)
(***************************************************************************)
\* the paths in whose filtered results the colour was retained
ImagesWith(color) ==
    {j \in 1..Len(batch_results) :
        /\ batch_results[j].outcome = "ok"
        /\ \E k \in 1..Len(batch_results[j].results) :
              batch_results[j].results[k].color = color}

\* C15: the count of every colour of the statistics is the number of distinct
\* images in which the colour was retained, so it is at most the number of
\* images processed, also when two clusters of an image have the same colour
\* string.
C15_CountIsImages ==
    BatchDone =>
        \A i \in 1..Len(ret) :
            /\ ret[i].count = Cardinality(ImagesWith(ret[i].color))
            /\ ret[i].count <= ProcessedImages(image_paths)

(***************************************************************************)
(* One colour (checked under SpecColor)                                    *)
(***************************************************************************)
Black == RGB(0, 0, 0)
Red == RGB(255, 0, 0)
Green == RGB(0, 255, 0)
Blue == RGB(0, 0, 255)

\* C16: is_skin_tone returns False for black, white, red, green and blue, and
\* its result for any colour is fixed by the colour: it is True exactly when
\* the integer YCrCb value lies in Y 0..255, Cr 133..173, Cb 77..127.
C16_PrimariesNotSkin ==
    call.op = "is_skin_tone" =>
        /\ arg \in {Black, White, Red, Green, Blue} => ret = FALSE
        /\ ret = (/\ RGB2YCrCb(arg)[1] \in 0..255
                  /\ RGB2YCrCb(arg)[2] \in 133..173
                  /\ RGB2YCrCb(arg)[3] \in 77..127)

C16_Witness ==
    /\ call.op = "is_skin_tone"
    /\ arg = Red
    /\ RGB2YCrCb(arg) = <<76, 255, 85>>
    /\ ret = FALSE

\* C20: every colour string extract_colors produces is '#' followed by six
\* lower-case hexadecimal digits, two per channel in the order red, green,
\* blue, whose values are the channels of the centre (0..255, zero-padded).
C20_HexFormat ==
    call.op = "extract_colors" =>
        \A k \in 1..Len(ret) :
            LET color == ret[k].color
            IN  /\ Len(color) = 7
                /\ color[1] = "#"
                /\ \A i \in 2..7 :
                      color[i] \in {"0", "1", "2", "3", "4", "5", "6", "7", "8", "9",
                                    "a", "b", "c", "d", "e", "f"}
                /\ ColorRGB(color) = arg
                /\ \A i \in 1..3 : arg[i] \in 0..255

C20_Witness ==
    /\ call.op = "extract_colors"
    /\ arg = RGB(10, 9, 160)
    /\ Len(ret) = 1
    /\ ret[1].color = <<"#", "0", "a", "0", "9", "a", "0">>

(***************************************************************************)
(* Image enumeration (checked under SpecEnum)                              *)
(***************************************************************************)
\* how many files of a list have the extension e, spelled exactly so
CountExt(files, e) == Len(SelectSeq(files, LAMBDA f : f.ext = e))

\* the files of the directory analyze_collection was called on
AnalyzedDir == (CHOOSE e \in {season_dir[i] : i \in 1..Len(season_dir)} : e.name = call.dir).files

\* C17: the files analyze_collection analyses are the files of the directory
\* whose extension is jpg, jpeg or png without regard to case, which are the
\* files generate_color_dictionary counts for the directory.
C17_SameFilesAsCounted ==
    CollectionDone =>
        \A e \in EnumExtensions :
            /\ CountExt(image_paths, e) = CountExt(CountedImages(AnalyzedDir), e)
            /\ CountExt(image_paths, e)
                 = IF Lower(e) \in {"jpg", "jpeg", "png"} THEN CountExt(AnalyzedDir, e) ELSE 0

(***************************************************************************)
(* color_dictionary.json (checked under Spec)                              *)
(***************************************************************************)
\* the names of the members of a JSON object
Names(object) == {object[i].key : i \in 1..Len(object)}

\* the document is designer -> {total_images: int, colors: {hex: {count: int,
\* percentage: float}}} and nothing else, with at most n colours per designer
HasDictionarySchema(doc, n) ==
    \A k \in 1..Len(doc) :
        /\ Len(doc[k].value) = 2
        /\ Names(doc[k].value) = {"total_images", "colors"}
        /\ Get(doc[k].value, "total_images").lit = "int"
        /\ Len(Get(doc[k].value, "colors")) <= n
        /\ \A m \in 1..Len(Get(doc[k].value, "colors")) :
              LET member == Get(doc[k].value, "colors")[m]
              IN  /\ Len(member.key) = 7
                  /\ member.key[1] = "#"
                  /\ Len(member.value) = 2
                  /\ Names(member.value) = {"count", "percentage"}
                  /\ Get(member.value, "count").lit = "int"
                  /\ Get(member.value, "percentage").lit = "float"

IsColorString(key) ==
    /\ Len(key) = 7
    /\ key[1] = "#"
    /\ \A i \in 2..7 : \E d \in 1..16 : key[i] = LowerHexDigits[d]

\* every item is (colour, {count, average_percentage})
ColorItems(items) ==
    \A i \in 1..Len(items) :
        /\ IsColorString(items[i].key)
        /\ DOMAIN items[i].value = {"count", "average_percentage"}

\* C19: the dict analyze_collection returns, and the dict analyze_season
\* stores and persists for each designer, maps a hex colour directly to
\* {count, average_percentage}: iterating its items gives such pairs.
C19_ColorItems ==
    /\ CollectionDone => ColorItems(ResultItems(ret.value))
    /\ (SeasonDone /\ call.write = "ok") =>
          \A k \in 1..Len(json_files.color_analysis.data) :
              ColorItems(ResultItems(
                  [empty |-> FALSE,
                   total_images |-> json_files.color_analysis.data[k].total_images,
                   colors |-> json_files.color_analysis.data[k].colors]))

(***************************************************************************)
(* Percentages of one image (checked under SpecBatch)                      *)
(***************************************************************************)
\* the sum of the percentages of a list of observations
PercentageSum(obs) == SeqSum([k \in 1..Len(obs) |-> obs[k].percentage])

\* C21: for every readable image the percentage of a cluster is 100 times its
\* pixel count over the number of pixels, the percentages extract_colors
\* returns sum to exactly 100, and those kept after filtering to at most 100.
C21_PercentagesPartition ==
    BatchDone =>
        \A j \in 1..Len(image_paths) :
            image_paths[j].readable =>
                LET obs == extract_colors(image_paths[j])
                IN  /\ \A k \in 1..Len(obs) :
                          obs[k].percentage * TotalPixels = 100 * image_paths[j].clusters[k].n
                    /\ PercentageSum(obs) = 100
                    /\ PercentageSum(batch_results[j].results) <= 100

C21_Witness ==
    /\ BatchDone
    /\ \E j \in 1..Len(image_paths) :
          /\ Len(image_paths[j].clusters) = 2
          /\ batch_results[j].outcome = "ok"
          /\ Len(batch_results[j].results) = 1
          /\ PercentageSum(batch_results[j].results) = 75

(***************************************************************************)
(* The clustered grid (checked under SpecGrid)                             *)
(***************************************************************************)
GridDone == call.op = "preprocess_image, extract_colors"

\* C22: the grid that is clustered has the shape of the source image when the
\* longest edge of that image is at most resize_size; otherwise its longest
\* edge is at most resize_size and its shape is the source's scaled by
\* resize_size / longest edge, each edge truncated to an integer.
C22_ResizeOnlyWhenLarger ==
    (GridDone /\ ~ret.raised) =>
        IF Max(arg[1], arg[2]) <= cfg.resize_size
        THEN ret.clustered = arg
        ELSE /\ Max(ret.clustered[1], ret.clustered[2]) <= cfg.resize_size
             /\ ret.clustered[1] = (arg[1] * cfg.resize_size) \div Max(arg[1], arg[2])
             /\ ret.clustered[2] = (arg[2] * cfg.resize_size) \div Max(arg[1], arg[2])

C24_TotalImagesCountsFiles ==
    (CollectionDone /\ ~ret.value.empty) =>
        /\ ret.value.total_images = Len(image_paths)
        /\ ret.value.total_images
             = CountExt(AnalyzedDir, "jpg") + CountExt(AnalyzedDir, "jpeg")
                 + CountExt(AnalyzedDir, "png")

C24_Witness ==
    /\ CollectionDone
    /\ ~ret.value.empty
    /\ ret.value.total_images = 2
    /\ ProcessedImages(image_paths) = 1
    /\ \E j \in 1..2 : ~image_paths[j].readable
    /\ ret.value.colors # <<>>

(***************************************************************************)
(* Batches (checked under SpecSteps)                                       *)
(***************************************************************************)
\* the batch loop of the current collection has ended
BatchesDone == run.pc = "batch" /\ run.i >= Len(run.paths)

KeysOf(dict) == {dict[k].designer : k \in 1..Len(dict)}

\* the directory has a file one of the patterns *.jpg, *.jpeg, *.png matches
HasMatchedFile(e) == \E f \in 1..Len(e.files) : e.files[f].ext \in {"jpg", "jpeg", "png"}

\* none of the matched files of the directory is processed
AllFail(e) ==
    /\ HasMatchedFile(e)
    /\ \A f \in 1..Len(e.files) :
          e.files[f].ext \in {"jpg", "jpeg", "png"} => PathOutcome(e.files[f]) # "ok"

\* C26: when create_color_dictionary has written its result, a designer
\* directory is a key of the dict returned and of the dict written exactly
\* when it holds a file the image patterns match; a designer whose images
\* all fail is a key with total_images > 0 and an empty colors mapping.
C26_KeyIffMatchedFile ==
    (DictionaryDone /\ ~NoDesignerDirs /\ call.write = "ok") =>
        \A i \in 1..Len(season_dir) :
            season_dir[i].isdir =>
                /\ season_dir[i].name \in KeysOf(ret.value) <=> HasMatchedFile(season_dir[i])
                /\ season_dir[i].name \in KeysOf(json_files.color_dictionary.data)
                      <=> HasMatchedFile(season_dir[i])
                /\ AllFail(season_dir[i]) =>
                      \E k \in 1..Len(ret.value) :
                          /\ ret.value[k].designer = season_dir[i].name
                          /\ ret.value[k].total_images > 0
                          /\ ret.value[k].colors = <<>>

C26_Witness ==
    /\ DictionaryDone
    /\ call.write = "ok"
    /\ Len(season_dir) = 2
    /\ season_dir[1].isdir /\ AllFail(season_dir[1])
    /\ season_dir[2].isdir /\ season_dir[2].files # <<>> /\ ~HasMatchedFile(season_dir[2])
    /\ KeysOf(ret.value) = {season_dir[1].name}
    /\ ret.value[1].total_images = 1
    /\ ret.value[1].colors = <<>>

(***************************************************************************)
(* The script generate_color_dictionary (checked under SpecEnum)           *)
(***************************************************************************)
ScriptDone == call.op = "generate_color_dictionary"

\* C27: when create_color_dictionary returned a non-empty dict, the script
\* logs a summary line for every colour of every designer and returns without
\* raising.
C27_SummaryLogged ==
    (ScriptDone /\ ret.value # <<>>) =>
        /\ ret.raised = "none"
        /\ \A k \in 1..Len(ret.value) : \A m \in 1..Len(ret.value[k].colors) :
              LogRecord("info", "color summary", ret.value[k].designer, m) \in log

(***************************************************************************)
(* generate_dataset (checked under SpecDataset)                            *)
(***************************************************************************)
\* the sum of the counts of a defaultdict
RECURSIVE Total(_)
Total(counts) ==
    IF DOMAIN counts = {} THEN 0
    ELSE LET c == CHOOSE x \in DOMAIN counts : TRUE
         IN  counts[c] + Total([y \in DOMAIN counts \ {c} |-> counts[y]])

\* the labelled images among the first n paths, in submission order
LabeledUpTo(n) == SelectSeq(SubSeq(image_paths, 1, n), LAMBDA im : im.result.labeled)

\* C28: whatever the order in which the workers finish, results holds the
\* results that are not None of the futures waited for so far, in submission
\* order; dataset_info does not exist while a worker runs; labeled_images is
\* at most total_images; and once every result is copied the counts of
\* categories, super_categories, styles and patterns each sum to
\* labeled_images.
C28_ResultsInSubmissionOrder ==
    /\ run.results = LabeledUpTo(run.next - 1)
    /\ Running <= cfg.n_jobs
    /\ run.pc = "pool" => ~run.dataset_info.made
    /\ run.dataset_info.made =>
          /\ Running = 0
          /\ run.dataset_info.total_images = Len(image_paths)
          /\ run.dataset_info.labeled_images = Len(LabeledUpTo(Len(image_paths)))
          /\ run.dataset_info.labeled_images <= run.dataset_info.total_images
    /\ (run.dataset_info.made /\ run.k > Len(run.results)) =>
          /\ Total(run.dataset_info.categories) = run.dataset_info.labeled_images
          /\ Total(run.dataset_info.super_categories) = run.dataset_info.labeled_images
          /\ Total(run.dataset_info.styles) = run.dataset_info.labeled_images
          /\ Total(run.dataset_info.patterns) = run.dataset_info.labeled_images

\* the second future is done while the first still runs, and results are
\* complete later: witnessed at the end of such a run
C28_Witness ==
    /\ run.pc = "returned"
    /\ call.write = "ok"
    /\ cfg.n_jobs = 2
    /\ Len(image_paths) = 2
    /\ ret.labeled_images = 2
    /\ ret.categories["shirt"] = 2
    /\ run.results = image_paths

\* a state in which the workers finished out of submission order
C28_OutOfOrder ==
    /\ run.pc = "pool"
    /\ Len(run.futures) = 2
    /\ run.futures[1] = "running"
    /\ run.futures[2] = "done"

\* the files below output_dir/categories
CategoryFiles == {q \in run.tree : q[1] = "categories"}

\* C29: when every result is copied, the number of files under
\* output_dir/categories is labeled_images.
C29_OneFilePerLabeledImage ==
    (run.pc \in {"copy", "returned"} /\ run.dataset_info.made /\ run.k > Len(run.results)) =>
        Cardinality(CategoryFiles) = run.dataset_info.labeled_images

(***************************************************************************)
(* scrape_season (checked under SpecScrape)                                *)
(***************************************************************************)
\* the paths of the downloads of a show that returned HTTP 200, in order
RECURSIVE Paths200(_, _)
Paths200(show, idx) ==
    IF idx >= Len(show.images) THEN <<>>
    ELSE (IF show.images[idx + 1] \in {"200", "200_write_raises"}
          THEN <<(<<show.designer, idx>>)>> ELSE <<>>) \o Paths200(show, idx + 1)

\* the shows processed so far that have a designer name
NamedSoFar == {n \in 1..(run.i - 1) : arg[n].designer # ""}

\* C30: while every save succeeds, season_data.json has been written once
\* per processed show with a designer name and, after the first of them,
\* holds for each of them an item with its URL whose image_count is the
\* length of image_paths and whose image_paths are its downloads that
\* returned HTTP 200, in download order; nothing else is in the file.
C30_SeasonDataTracksShows ==
    run.pc \in {"loop", "returned"} =>
        /\ run.saves = Cardinality(NamedSoFar)
        /\ NamedSoFar = {} => json_files.season_data = Absent
        /\ NamedSoFar # {} =>
              /\ json_files.season_data.state = "complete"
              /\ \A n \in NamedSoFar :
                    \E m \in 1..Len(json_files.season_data.data) :
                        LET item == json_files.season_data.data[m]
                        IN  /\ item.designer = arg[n].designer
                            /\ item.url = arg[n].url
                            /\ item.image_count = Len(item.image_paths)
                            /\ item.image_paths = Paths200(arg[n], 0)
              /\ Len(json_files.season_data.data) = Cardinality(NamedSoFar)

====
